---------------------------- MODULE Spec2Model ----------------------------
(***************************************************************************)
(* Password Strength Lab (unifiedfront/passwordmeter).                     *)
(*                                                                         *)
(* The repository holds several builds of client/src/App.tsx:              *)
(*   "App"       src/client/src/App.tsx   zxcvbn, ease-out meter           *)
(*   "part_003"  src/unnamed/part_003     zxcvbn, gamma meter, hasInput    *)
(*   "part_001"  src/unnamed/part_001     zxcvbn, entropy tiers,           *)
(*                                        formatDuration(seconds, display) *)
(*   part_002    src/unnamed/part_002     self-contained model; its        *)
(*                                        formatDuration(seconds)          *)
(* A build is a React component whose only state is the password string;   *)
(* the Estimate and the tier are recomputed from it on every render.       *)
(*                                                                         *)
(* JavaScript numbers are modelled by exact rationals (plus NaN and the    *)
(* infinities).  Small quantities (guesses_log10, score, meter percent)    *)
(* are pairs of integers; seconds are pairs of arbitrary-precision         *)
(* naturals, because a century of seconds does not fit TLC's integers.     *)
(***************************************************************************)
EXTENDS Integers, Sequences, FiniteSets, TLC

VARIABLES
    variant,    \* which build of App.tsx is running
    zxSeed,     \* which oracle (zxcvbn) the page was loaded with
    password,   \* useState: the current password, a sequence of characters
    result,     \* the oracle's result for the current password (console.log)
    estimate,   \* useMemo: scorePassword(password)
    level,      \* useMemo: strengthFromScore / strengthFromEntropy
    call,       \* a helper function called on its own, with its arguments
    ret,        \* what that call returned
    open,       \* Tooltip: useState(false)
    hovered,    \* Tooltip: the pointer is over the span
    focused,    \* Tooltip: the trigger button has the focus
    pending,    \* Tooltip: the events of the user's gesture not yet handled
    activation  \* Tooltip: how many activations of the trigger in a row

tipVars == <<open, hovered, focused, pending, activation>>

vars ==
    <<variant, zxSeed, password, result, estimate, level, call, ret, tipVars>>

appVars == <<variant, zxSeed, password, result, estimate, level, tipVars>>

\* everything but the Tooltip
pageVars == <<variant, zxSeed, password, result, estimate, level, call, ret>>

\* the Tooltip as mounted: closed, nothing under way
TipClosed ==
    /\ open = FALSE
    /\ hovered = FALSE
    /\ focused = FALSE
    /\ pending = <<>>
    /\ activation = 0

(***************************************************************************)
(* Arbitrary-precision naturals: little-endian sequences of limbs in base  *)
(* BigBase without leading zero limbs (zero is the empty sequence).        *)
(***************************************************************************)
BigBase == 10^4

\* a without its leading (most significant) zero limbs
BigNorm(a) ==
    LET nonzero == {i \in 1..Len(a) : a[i] # 0}
    IN  IF nonzero = {} THEN <<>>
        ELSE SubSeq(a, 1, CHOOSE m \in nonzero : \A i \in nonzero : i <= m)

RECURSIVE BigFromNat(_)
BigFromNat(n) ==
    IF n = 0 THEN <<>> ELSE <<n % BigBase>> \o BigFromNat(n \div BigBase)

\* carry propagation over the columns i..j of d, whose entries may exceed
\* the base: the limbs of the columns and the carry out of column j. The
\* range is halved, so the nesting stays logarithmic in the length.
RECURSIVE BigCarry(_, _, _, _)
BigCarry(d, i, j, carry) ==
    IF i = j
    THEN [limbs |-> <<(d[i] + carry) % BigBase>>,
          carry |-> (d[i] + carry) \div BigBase]
    ELSE LET mid == (i + j) \div 2
             low == BigCarry(d, i, mid, carry)
             high == BigCarry(d, mid + 1, j, low.carry)
         IN  [limbs |-> low.limbs \o high.limbs, carry |-> high.carry]

\* the number whose column i holds d[i] (every d[i] below 2^31 - 2^18)
BigFromColumns(d) ==
    IF Len(d) = 0 THEN <<>>
    ELSE LET r == BigCarry(d, 1, Len(d), 0)
         IN  BigNorm(r.limbs \o BigFromNat(r.carry))

\* a * k for a small k (k <= 200000 keeps every column in 31 bits)
BigMulSmall(a, k) ==
    BigFromColumns([i \in 1..Len(a) |-> a[i] * k] \o <<>>)

BigAdd(a, b) ==
    LET n == IF Len(a) < Len(b) THEN Len(b) ELSE Len(a)
    IN  BigFromColumns([i \in 1..n |->
                           (IF i <= Len(a) THEN a[i] ELSE 0)
                             + (IF i <= Len(b) THEN b[i] ELSE 0)] \o <<>>)

\* the sum of a[i] * b[k + 1 - i] over i in lo..hi
RECURSIVE BigColumn(_, _, _, _, _)
BigColumn(a, b, k, lo, hi) ==
    IF lo > hi THEN 0
    ELSE a[lo] * b[k + 1 - lo] + BigColumn(a, b, k, lo + 1, hi)

\* the most limbs of the shorter factor for which a column of products stays
\* in 31 bits
BigChunk == 2147483647 \div (BigBase * BigBase)

\* a * b for a b of at most BigChunk limbs: column by column
BigMulShort(a, b) ==
    IF Len(a) = 0 \/ Len(b) = 0 THEN <<>>
    ELSE BigFromColumns(
             [k \in 1..(Len(a) + Len(b) - 1) |->
                 BigColumn(a, b, k,
                           IF k > Len(b) THEN k + 1 - Len(b) ELSE 1,
                           IF k > Len(a) THEN Len(a) ELSE k)] \o <<>>)

\* a * b, a longer b taken BigChunk limbs at a time
RECURSIVE BigMul(_, _)
BigMul(a, b) ==
    IF Len(b) <= BigChunk THEN BigMulShort(a, b)
    ELSE BigAdd(BigMulShort(a, SubSeq(b, 1, BigChunk)),
                BigNorm([i \in 1..BigChunk |-> 0]
                          \o BigMul(a, SubSeq(b, BigChunk + 1, Len(b)))))

\* a^e by repeated squaring
RECURSIVE BigPowOf(_, _)
BigPowOf(a, e) ==
    IF e = 0 THEN <<1>>
    ELSE LET half == BigPowOf(a, e \div 2)
             square == BigMul(half, half)
         IN  IF e % 2 = 1 THEN BigMul(square, a) ELSE square

\* k^e for a natural number k
BigPow(k, e) == BigPowOf(BigFromNat(k), e)

\* a < b: by length, then by the most significant limb that differs
BigLt(a, b) ==
    IF Len(a) # Len(b) THEN Len(a) < Len(b)
    ELSE LET differ == {i \in 1..Len(a) : a[i] # b[i]}
         IN  /\ differ # {}
             /\ LET m == CHOOSE m \in differ : \A i \in differ : i <= m
                IN  a[m] < b[m]

BigLeq(a, b) == ~BigLt(b, a)

RECURSIVE BigToNat(_)
BigToNat(a) == IF a = <<>> THEN 0 ELSE Head(a) + BigBase * BigToNat(Tail(a))

\* floor(a / b) by bisection over lo..hi, for a quotient known to lie there
RECURSIVE BigQuotient(_, _, _, _)
BigQuotient(a, b, lo, hi) ==
    IF lo >= hi THEN lo
    ELSE LET mid == (lo + hi + 1) \div 2
         IN  IF BigLeq(BigMulSmall(b, mid), a)
             THEN BigQuotient(a, b, mid, hi)
             ELSE BigQuotient(a, b, lo, mid - 1)

\* the largest quotient the model ever forms (a rounded duration, a bit count)
QuotientLimit == 10^5

BigFloorDiv(a, b) == BigQuotient(a, b, 0, QuotientLimit)

(***************************************************************************)
(* Small JavaScript numbers: guesses_log10, score, meter percent.  A       *)
(* finite number is the exact fraction num/den in lowest terms, den > 0.   *)
(***************************************************************************)
RECURSIVE Gcd(_, _)
Gcd(a, b) == IF b = 0 THEN a ELSE Gcd(b, a % b)

Abs(n) == IF n < 0 THEN -n ELSE n

Num(n, d) ==
    LET g == Gcd(Abs(n), d)
    IN  [kind |-> "fin", num |-> n \div g, den |-> d \div g]

Int2Num(n) == Num(n, 1)

NaN == [kind |-> "NaN", num |-> 0, den |-> 1]

IsFin(x) == x.kind = "fin"

\* x < y, x <= y, x === y on numbers: every comparison with NaN is false
NumLt(x, y) == IsFin(x) /\ IsFin(y) /\ x.num * y.den < y.num * x.den

NumLeq(x, y) == IsFin(x) /\ IsFin(y) /\ x.num * y.den <= y.num * x.den

NumEq(x, y) == IsFin(x) /\ IsFin(y) /\ x.num * y.den = y.num * x.den

NumSub(x, y) == Num(x.num * y.den - y.num * x.den, x.den * y.den)

NumMul(x, y) == Num(x.num * y.num, x.den * y.den)

\* x / y for y > 0
NumDiv(x, y) == Num(x.num * y.den, x.den * y.num)

MathMin(x, y) == IF NumLt(y, x) THEN y ELSE x

MathMax(x, y) == IF NumLt(x, y) THEN y ELSE x

IsInteger(x) == IsFin(x) /\ x.den = 1

(***************************************************************************)
(* clamp, and the two meter curves.                                        *)
(***************************************************************************)
\* the slip of leaving out the upper limit
clamp_NoUpper(n, min, max) == MathMax(n, min)

clamp(n, min, max) == MathMin(MathMax(n, min), max)

\* App.tsx: min = 2, max = 18
AppMeterMin == 2

AppMeterMax == 18

\* App.tsx: ease-out quadratic, returned as it is (no rounding)
meterPercentFromGuessesLog10_App(guessesLog10) ==
    LET t == clamp(NumDiv(NumSub(guessesLog10, Int2Num(AppMeterMin)),
                          Int2Num(AppMeterMax - AppMeterMin)),
                   Int2Num(0), Int2Num(1))
        u == NumSub(Int2Num(1), t)
        eased == NumSub(Int2Num(1), NumMul(u, u))
    IN  NumMul(eased, Int2Num(100))

\* part_003: min = 3, max = 24, gamma = 0.72 = 18/25
MeterMin == 3

MeterMax == 24

GammaNum == 18

GammaDen == 25

\* Math.pow(t, gamma) for a fraction t >= 0 is irrational in general: it is
\* kept symbolically, as the base and the exponent
MathPow(t, gNum, gDen) == [base |-> t, expNum |-> gNum, expDen |-> gDen]

\* whether  p - 1/2 <= 100 * base^(expNum/expDen), that is
\* (2p-1)^expDen * den^expNum <= 200^expDen * num^expNum
PowReaches(curved, p) ==
    \/ p <= 0
    \/ BigLeq(BigMul(BigPow(2 * p - 1, curved.expDen),
                     BigPow(curved.base.den, curved.expNum)),
              BigMul(BigPow(200, curved.expDen),
                     BigPow(curved.base.num, curved.expNum)))

\* Math.round(curved * 100): the largest p in lo..hi that the value reaches
RECURSIVE RoundPercentIn(_, _, _)
RoundPercentIn(curved, lo, hi) ==
    IF lo >= hi THEN lo
    ELSE LET mid == (lo + hi + 1) \div 2
         IN  IF PowReaches(curved, mid)
             THEN RoundPercentIn(curved, mid, hi)
             ELSE RoundPercentIn(curved, lo, mid - 1)

RoundPercent(curved) == RoundPercentIn(curved, 0, 1000)

\* the slip of normalising by max instead of max - min
meterPercentFromGuessesLog10_WrongSpan(guessesLog10, hasInput) ==
    LET t == clamp(NumDiv(NumSub(guessesLog10, Int2Num(MeterMin)),
                          Int2Num(MeterMax)),
                   Int2Num(0), Int2Num(1))
        curved == MathPow(t, GammaNum, GammaDen)
        pct == RoundPercent(curved)
    IN  IF ~hasInput THEN Int2Num(0)
        ELSE clamp(Int2Num(pct), Int2Num(1), Int2Num(100))

\* part_003
meterPercentFromGuessesLog10(guessesLog10, hasInput) ==
    LET t == clamp(NumDiv(NumSub(guessesLog10, Int2Num(MeterMin)),
                          Int2Num(MeterMax - MeterMin)),
                   Int2Num(0), Int2Num(1))
        curved == MathPow(t, GammaNum, GammaDen)
        pct == RoundPercent(curved)
    IN  IF ~hasInput THEN Int2Num(0)
        ELSE clamp(Int2Num(pct), Int2Num(1), Int2Num(100))

(***************************************************************************)
(* Seconds: a finite number is num/den with arbitrary-precision naturals   *)
(* and a sign; the other kinds are NaN and the two infinities.             *)
(***************************************************************************)
Sec(n, d) == [kind |-> "fin", neg |-> FALSE, num |-> n, den |-> d]

SecNeg(n, d) == [kind |-> "fin", neg |-> TRUE, num |-> n, den |-> d]

SecNaN == [kind |-> "NaN", neg |-> FALSE, num |-> <<>>, den |-> <<1>>]

SecInfinity == [kind |-> "Infinity", neg |-> FALSE, num |-> <<>>, den |-> <<1>>]

SecNegInfinity == [kind |-> "Infinity", neg |-> TRUE, num |-> <<>>, den |-> <<1>>]

isFinite(x) == x.kind = "fin"

\* x <= 0 (false for NaN)
SecNonPositive(x) ==
    \/ x.kind = "fin" /\ (x.neg \/ x.num = <<>>)
    \/ x.kind = "Infinity" /\ x.neg

\* value < k and value / k for a positive finite value and a small integer k
ValueLess(value, k) == BigLt(value.num, BigMulSmall(value.den, k))

ValueDiv(value, k) == [num |-> value.num, den |-> BigMulSmall(value.den, k)]

\* Math.round(value * k) for a value >= 0: floor(value * k + 1/2)
MathRoundTimes(value, k) ==
    BigFloorDiv(BigAdd(BigMulSmall(value.num, 2 * k), value.den),
                BigMulSmall(value.den, 2))

\* String(x) for a small number with at most one decimal digit
NumToString(x) ==
    IF x.den = 1 THEN ToString(x.num)
    ELSE LET tenths == (x.num * 10) \div x.den
         IN  ToString(tenths \div 10) \o "." \o ToString(tenths % 10)

(***************************************************************************)
(* formatDuration (part_002; part_001 has the same body behind its         *)
(* friendlyDisplay shortcut).                                              *)
(***************************************************************************)
units ==
    << [step |-> 60, name |-> "second"],
       [step |-> 60, name |-> "minute"],
       [step |-> 24, name |-> "hour"],
       [step |-> 365, name |-> "day"],
       [step |-> 100, name |-> "year"] >>

\* the for loop from entry i on: the value and the unit it ends with
RECURSIVE DurationLoop(_, _)
DurationLoop(value, i) ==
    IF i > Len(units) THEN [value |-> value, unit |-> units[Len(units)].name]
    ELSE IF ValueLess(value, units[i].step)
         THEN [value |-> value, unit |-> units[i].name]
         ELSE DurationLoop(ValueDiv(value, units[i].step), i + 1)

\* the lines after the guard, for a finite positive number of seconds
DurationText(seconds) ==
    LET end == DurationLoop([num |-> seconds.num, den |-> seconds.den], 1)
        rounded == IF ValueLess(end.value, 10)
                   THEN Num(MathRoundTimes(end.value, 10), 10)
                   ELSE Int2Num(MathRoundTimes(end.value, 1))
        suffix == IF NumEq(rounded, Int2Num(1)) THEN "" ELSE "s"
    IN  NumToString(rounded) \o " " \o end.unit \o suffix

\* the slip of testing seconds < 0 and forgetting the non-finite values
formatDuration_WeakGuard(seconds) ==
    IF seconds.kind = "fin" /\ seconds.neg /\ seconds.num # <<>>
    THEN "almost instantly"
    ELSE IF seconds.kind = "NaN" THEN "NaN years"
    ELSE IF seconds.kind = "Infinity"
         THEN (IF seconds.neg THEN "almost instantly" ELSE "Infinity years")
    ELSE DurationText(seconds)

formatDuration(seconds) ==
    IF ~isFinite(seconds) \/ SecNonPositive(seconds) THEN "almost instantly"
    ELSE DurationText(seconds)

\* an optional string is a sequence of at most one string: <<>> is undefined
Truthy(opt) == opt # <<>> /\ opt[1] # ""

\* a || b
JsOr(a, b) == IF Truthy(a) THEN a ELSE b

\* the slip of formatting the seconds whatever display string comes with them
formatDuration_001_IgnoreDisplay(seconds, friendlyDisplay) ==
    formatDuration(seconds)

\* part_001: formatDuration(seconds, friendlyDisplay?)
formatDuration_001(seconds, friendlyDisplay) ==
    IF Truthy(friendlyDisplay) THEN friendlyDisplay[1]
    ELSE formatDuration(seconds)

(***************************************************************************)
(* Passwords are sequences of characters (one-character strings).          *)
(***************************************************************************)
LowerChars ==
    {"a", "b", "c", "d", "e", "f", "g", "h", "i", "j", "k", "l", "m",
     "n", "o", "p", "q", "r", "s", "t", "u", "v", "w", "x", "y", "z"}

UpperChars ==
    {"A", "B", "C", "D", "E", "F", "G", "H", "I", "J", "K", "L", "M",
     "N", "O", "P", "Q", "R", "S", "T", "U", "V", "W", "X", "Y", "Z"}

DigitChars == {"0", "1", "2", "3", "4", "5", "6", "7", "8", "9"}

\* whether one character matches a character-class regex
CharMatches(regex, c) ==
    CASE regex = "[a-z]" -> c \in LowerChars
      [] regex = "[A-Z]" -> c \in UpperChars
      [] regex = "[0-9]" -> c \in DigitChars
      [] regex = "[^a-zA-Z0-9]" ->
             c \notin (LowerChars \cup UpperChars \cup DigitChars)

\* regex.test(password): some character of the password matches
RegexTest(regex, pw) == \E i \in 1..Len(pw) : CharMatches(regex, pw[i])

VarietyRegexes == <<"[a-z]", "[A-Z]", "[0-9]", "[^a-zA-Z0-9]">>

\* the slip of counting the matching characters instead of the classes
variety_CountChars(pw) ==
    Cardinality({i \in 1..Len(pw) :
                    \E j \in 1..Len(VarietyRegexes) :
                        CharMatches(VarietyRegexes[j], pw[i])})

\* [...].filter((regex) => regex.test(password)).length
variety(pw) ==
    LET Test(regex) == RegexTest(regex, pw)
    IN  Len(SelectSeq(VarietyRegexes, Test))

PwPassword123 ==
    <<"p", "a", "s", "s", "w", "o", "r", "d", "1", "2", "3">>

PwCats4Life ==
    <<"C", "@", "t", "s", "4", "L", "i", "f", "e">>

PwCorrectHorse ==
    <<"c", "o", "r", "r", "e", "c", "t", " ", "h", "o", "r", "s", "e", " ">>
      \o <<"b", "a", "t", "t", "e", "r", "y", " ", "s", "t", "a", "p", "l", "e">>

PwRandom24 ==
    <<"7", "*", "J", "G", "i", "U", "L", "W", "F", "J", "t", "y", "d", "s">>
      \o <<"K", "*", "V", "d", "p", "w", "t", "G", "J", "w">>

PwGiraffe ==
    <<"g", "i", "r", "a", "f", "f", "e", " ", "p", "l", "a", "n", "e", "t">>
      \o <<" ", "d", "a", "n", "c", "e", " ", "2", "0", "2", "4", "!">>

PwZy9 ==
    <<"Z", "y", "9", "!", "m", "N", "&", "Q", "p", "L", "#", "7">>

PwSummer2025 ==
    <<"S", "u", "m", "m", "e", "r", "2", "0", "2", "5", "!">>

PwD0gz4Life ==
    <<"D", "0", "g", "z", "4", "L", "i", "f", "e">>

PwD0gz4LifeV2 ==
    <<"D", "0", "g", "z", "4", "L", "i", "f", "e", "!", "!", "-", "v", "2">>

\* PRESETS of each build, by value
PRESETS ==
    [App |-> <<PwPassword123, PwCats4Life, PwCorrectHorse, PwRandom24>>,
     part_001 |-> <<PwPassword123, PwCats4Life, PwGiraffe, PwZy9>>,
     part_003 |-> <<PwPassword123, PwSummer2025, PwD0gz4Life, PwD0gz4LifeV2,
                    PwCorrectHorse, PwRandom24>>]

Variants == {"App", "part_001", "part_003"}

(***************************************************************************)
(* Tiers.                                                                  *)
(***************************************************************************)
\* App.tsx and part_003
LEVELS ==
    << [score |-> 0, label |-> "Very weak", color |-> "#ef4444"],
       [score |-> 1, label |-> "Weak", color |-> "#f97316"],
       [score |-> 2, label |-> "Okay", color |-> "#f59e0b"],
       [score |-> 3, label |-> "Strong", color |-> "#10b981"],
       [score |-> 4, label |-> "Excellent", color |-> "#14b8a6"] >>

\* LEVELS.find((level) => level.score === score), from entry i on;
\* <<>> is undefined
RECURSIVE FindLevel(_, _)
FindLevel(score, i) ==
    IF i > Len(LEVELS) THEN <<>>
    ELSE IF NumEq(Int2Num(LEVELS[i].score), score) THEN <<LEVELS[i]>>
    ELSE FindLevel(score, i + 1)

\* the slip of indexing the table by the score instead of searching it
strengthFromScore_Index(score) ==
    IF IsFin(score) /\ score.den = 1 /\ score.num >= 0
    THEN LEVELS[IF score.num + 1 > Len(LEVELS) THEN Len(LEVELS)
                ELSE score.num + 1]
    ELSE LEVELS[1]

\* find(...) ?? LEVELS[0]
strengthFromScore(score) ==
    LET found == FindLevel(score, 1)
    IN  IF found # <<>> THEN found[1] ELSE LEVELS[1]

\* part_001
LEVELS_001 ==
    << [minEntropy |-> 0, label |-> "Very weak", color |-> "#ef4444"],
       [minEntropy |-> 28, label |-> "Weak", color |-> "#f87171"],
       [minEntropy |-> 36, label |-> "Okay", color |-> "#f59e0b"],
       [minEntropy |-> 45, label |-> "Strong", color |-> "#10b981"],
       [minEntropy |-> 60, label |-> "Excellent", color |-> "#14b8a6"] >>

\* LEVELS.reduce((current, level) => entropy >= level.minEntropy ? level
\* : current, LEVELS[0]), from entry i on
RECURSIVE ReduceLevel(_, _, _)
ReduceLevel(entropy, current, i) ==
    IF i > Len(LEVELS_001) THEN current
    ELSE ReduceLevel(entropy,
                     IF entropy >= LEVELS_001[i].minEntropy
                     THEN LEVELS_001[i] ELSE current,
                     i + 1)

strengthFromEntropy(entropy) == ReduceLevel(entropy, LEVELS_001[1], 1)

(***************************************************************************)
(* Entropy bits.                                                           *)
(***************************************************************************)
\* hi * 10^digits + lo over 10^scale, as a fraction of big naturals
BigDecimal(hi, digits, lo, scale) ==
    [num |-> BigAdd(BigMul(BigFromNat(hi), BigPow(10, digits)), BigFromNat(lo)),
     den |-> BigPow(10, scale)]

\* the slip of using the natural logarithm of 10 alone: 2.302585092994046
LOG2_10_LN10 == BigDecimal(23025850, 8, 92994046, 15)

\* App.tsx, part_003: Math.LN10 / Math.LN2, the double 3.3219280948873626
LOG2_10 == BigDecimal(332192809, 8, 48873626, 16)

\* part_001: the literal 3.32192809489
LOG2_10_001 == BigDecimal(3321928, 5, 9489, 11)

\* Math.max(0, Math.round(guesses_log10 * factor)) for guesses_log10 >= 0
EntropyBits(guesses_log10, factor) ==
    LET product == [num |-> BigMulSmall(factor.num, guesses_log10.num),
                    den |-> BigMulSmall(factor.den, guesses_log10.den)]
        rounded == MathRoundTimes(product, 1)
    IN  IF 0 > rounded THEN 0 ELSE rounded

(***************************************************************************)
(* The oracle.  zxcvbn is a third-party library: a pure function of the    *)
(* password whose values the builds do not control.  The page is loaded    *)
(* with one oracle out of a family, fixed by zxSeed; over the family every *)
(* password meets every result of ZxCount, and one oracle gives different  *)
(* passwords different results.                                            *)
(***************************************************************************)
ZxLogs == <<Int2Num(0), Int2Num(6), Int2Num(30)>>

\* the guesses_log10 values of the model: the multiples of 1/LogDen up to
\* MaxLog, and the oracle family's values
LogDen == 3

MaxLog == 28

LogGrid == {Num(n, LogDen) : n \in 0..(MaxLog * LogDen)}

LogDomain == LogGrid \cup {ZxLogs[i] : i \in 1..Len(ZxLogs)}

\* The curve and the bit count are evaluated once per value of LogDomain
\* (TLC evaluates a constant definition a single time) and looked up from
\* then on; the tables hold nothing but the operators' values.
MeterPercentTable ==
    [g \in LogDomain |->
        [hasInput \in BOOLEAN |-> meterPercentFromGuessesLog10(g, hasInput)]]

EntropyTable ==
    [g \in LogDomain |-> EntropyBits(g, LOG2_10)]

EntropyTable_001 ==
    [g \in LogDomain |-> EntropyBits(g, LOG2_10_001)]

ZxCrack ==
    << [offline_fast_hashing_1e10_per_second |-> Sec(<<1>>, <<20>>),
        offline_slow_hashing_1e4_per_second |-> Sec(<<0, 5>>, <<1>>)],
       [offline_fast_hashing_1e10_per_second |-> Sec(<<>>, <<1>>),
        offline_slow_hashing_1e4_per_second |-> Sec(<<>>, <<1>>)],
       [offline_fast_hashing_1e10_per_second |-> SecNeg(<<5>>, <<1>>),
        offline_slow_hashing_1e4_per_second |-> SecNeg(<<5>>, <<1>>)],
       [offline_fast_hashing_1e10_per_second |-> SecInfinity,
        offline_slow_hashing_1e4_per_second |-> SecInfinity],
       [offline_fast_hashing_1e10_per_second |-> SecNaN,
        offline_slow_hashing_1e4_per_second |-> SecNaN] >>

ZxDisplay ==
    << [offline_fast_hashing_1e10_per_second |-> "less than a second",
        offline_slow_hashing_1e4_per_second |-> "14 hours"],
       [offline_fast_hashing_1e10_per_second |-> "centuries",
        offline_slow_hashing_1e4_per_second |-> "centuries"],
       [offline_fast_hashing_1e10_per_second |-> "",
        offline_slow_hashing_1e4_per_second |-> ""] >>

ZxScores == <<Int2Num(0), Int2Num(3), Int2Num(7)>>

ZxWarnings == <<"", "This is a top-10 common password">>

ZxSuggestions ==
    << <<>>,
       <<"Add another word or two. Uncommon words are better.">>,
       <<"Avoid sequences", "Avoid repeated words and characters">>,
       <<"", "Avoid years that are associated with you">> >>

ZxCount ==
    Len(ZxLogs) * Len(ZxCrack) * Len(ZxDisplay) * Len(ZxScores)
      * Len(ZxWarnings) * Len(ZxSuggestions)

\* the k-th result, k in 0..ZxCount-1, by mixed-radix digits
ResultAt(k) ==
    LET k1 == k \div Len(ZxLogs)
        k2 == k1 \div Len(ZxCrack)
        k3 == k2 \div Len(ZxDisplay)
        k4 == k3 \div Len(ZxScores)
        k5 == k4 \div Len(ZxWarnings)
    IN  [guesses_log10 |-> ZxLogs[(k % Len(ZxLogs)) + 1],
         crack_times_seconds |-> ZxCrack[(k1 % Len(ZxCrack)) + 1],
         crack_times_display |-> ZxDisplay[(k2 % Len(ZxDisplay)) + 1],
         score |-> ZxScores[(k3 % Len(ZxScores)) + 1],
         feedback |->
             [warning |-> ZxWarnings[(k4 % Len(ZxWarnings)) + 1],
              suggestions |-> ZxSuggestions[(k5 % Len(ZxSuggestions)) + 1]]]

\* what the user may type into the input
TypedInputs ==
    << <<>>, <<"a">>, <<"B">>, <<"7">>, <<" ">>, <<"é">>, <<"a", "B">>,
       <<"a", "7", "*">> >>

AllPasswords ==
    TypedInputs
      \o <<PwPassword123, PwCats4Life, PwCorrectHorse, PwRandom24, PwGiraffe,
           PwZy9, PwSummer2025, PwD0gz4Life, PwD0gz4LifeV2>>

PasswordIndex(pw) ==
    CHOOSE i \in 1..Len(AllPasswords) : AllPasswords[i] = pw

\* zxcvbn(password), for the oracle the page was loaded with
zxcvbnOf(seed, pw) == ResultAt((seed + 77 * PasswordIndex(pw)) % ZxCount)

zxcvbn(pw) == zxcvbnOf(zxSeed, pw)

(***************************************************************************)
(* scorePassword, per build.                                               *)
(***************************************************************************)
Prompt == "Type a password to see how strong it is!"

\* suggestions[0]: undefined for an empty array
First(suggestions) ==
    IF Len(suggestions) = 0 THEN <<>> ELSE <<suggestions[1]>>

\* the slip of preferring the first suggestion to the warning
Feedback_SuggestionFirst(pw, res, fallback) ==
    IF Len(pw) = 0 THEN Prompt
    ELSE JsOr(JsOr(First(res.feedback.suggestions), <<res.feedback.warning>>),
              <<fallback>>)[1]

\* password.length === 0 ? prompt : warning || suggestions[0] || fallback
Feedback(pw, res, fallback) ==
    IF Len(pw) = 0 THEN Prompt
    ELSE JsOr(JsOr(<<res.feedback.warning>>, First(res.feedback.suggestions)),
              <<fallback>>)[1]

\* src/client/src/App.tsx
scorePassword_App(pw, res) ==
    [entropy |-> EntropyTable[res.guesses_log10],
     crackSeconds |->
         res.crack_times_seconds.offline_fast_hashing_1e10_per_second,
     crackTime |->
         res.crack_times_display.offline_fast_hashing_1e10_per_second,
     suggestion |-> Feedback(pw, res, "Nice job! This looks strong."),
     variety |-> variety(pw),
     score |-> res.score,
     meterPercent |-> meterPercentFromGuessesLog10_App(res.guesses_log10)]

\* src/unnamed/part_003
scorePassword_003(pw, res) ==
    [entropy |-> EntropyTable[res.guesses_log10],
     crackSeconds |->
         res.crack_times_seconds.offline_slow_hashing_1e4_per_second,
     crackTime |->
         res.crack_times_display.offline_slow_hashing_1e4_per_second,
     suggestion |-> Feedback(pw, res, "Nice job! This looks strong."),
     variety |-> variety(pw),
     score |-> res.score,
     meterPercent |->
         MeterPercentTable[res.guesses_log10][Len(pw) > 0]]

\* src/unnamed/part_001
scorePassword_001(pw, res) ==
    IF Len(pw) = 0
    THEN [entropy |-> 0,
          crackSeconds |-> Sec(<<>>, <<1>>),
          crackTime |-> Prompt,
          suggestion |-> Prompt,
          variety |-> 0]
    ELSE LET crackSeconds ==
                 res.crack_times_seconds.offline_fast_hashing_1e10_per_second
             crackDisplay ==
                 res.crack_times_display.offline_fast_hashing_1e10_per_second
         IN  [entropy |-> EntropyTable_001[res.guesses_log10],
              crackSeconds |-> crackSeconds,
              crackTime |-> formatDuration_001(crackSeconds, <<crackDisplay>>),
              suggestion |->
                  JsOr(JsOr(<<res.feedback.warning>>,
                            First(res.feedback.suggestions)),
                       <<"Passphrases with a mix of words and symbols are powerful.">>)[1],
              variety |-> variety(pw)]

\* scorePassword of build v; res is what its call zxcvbn(password) returns
\* (part_001 makes that call only for a non-empty password)
scorePassword(v, pw, res) ==
    CASE v = "App" -> scorePassword_App(pw, res)
      [] v = "part_003" -> scorePassword_003(pw, res)
      [] v = "part_001" -> scorePassword_001(pw, res)

\* useMemo(() => strengthFromScore(estimate.score)) and, in part_001,
\* useMemo(() => strengthFromEntropy(estimate.entropy))
LevelOf(v, est) ==
    IF v = "part_001" THEN strengthFromEntropy(est.entropy)
    ELSE [label |-> strengthFromScore(est.score).label,
          color |-> strengthFromScore(est.score).color]

(***************************************************************************)
(* The page: App().                                                        *)
(***************************************************************************)
Idle == [fn |-> "none"]

NoReturn == [done |-> FALSE]

\* the slip of an empty dependency list: the first estimate is kept
useMemoEstimate_NoDeps(pw) == estimate

\* useMemo(() => scorePassword(password), [password]) in the render with the
\* password pw: the value of the last render while the dependency is the same
useMemoEstimate(pw) ==
    IF pw = password THEN estimate
    ELSE scorePassword(variant, pw, zxcvbn(pw))

\* the dependency of the tier: estimate.score, in part_001 estimate.entropy
LevelDep(est) == IF variant = "part_001" THEN est.entropy ELSE est.score

\* useMemo(() => strengthFromScore(estimate.score), [estimate.score])
useMemoLevel(est) ==
    IF LevelDep(est) = LevelDep(estimate) THEN level
    ELSE LevelOf(variant, est)

\* setPassword(pw) and the render it causes
Render(pw) ==
    LET est == useMemoEstimate(pw)
    IN  /\ password' = pw
        /\ result' = zxcvbn(pw)
        /\ estimate' = est
        /\ level' = useMemoLevel(est)
        /\ UNCHANGED <<variant, zxSeed, call, ret, tipVars>>

\* the first render: useState('password123')
Init ==
    /\ variant \in Variants
    /\ zxSeed \in 0..(ZxCount - 1)
    /\ password = PwPassword123
    /\ result = zxcvbn(PwPassword123)
    /\ estimate = scorePassword(variant, PwPassword123, zxcvbn(PwPassword123))
    /\ level = LevelOf(variant, estimate)
    /\ call = Idle
    /\ ret = NoReturn
    /\ TipClosed

\* <input onChange={(e) => setPassword(e.target.value)}>
OnChange == \E i \in 1..Len(TypedInputs) : Render(TypedInputs[i])

\* <button onClick={() => setPassword(preset.value)}>
PresetClick == \E i \in 1..Len(PRESETS[variant]) : Render(PRESETS[variant][i])

Next == OnChange \/ PresetClick

Spec == Init /\ [][Next]_vars

(***************************************************************************)
(* Helper functions called on their own, on inputs drawn from bounded      *)
(* sets: the call is chosen in the initial state and one action applies    *)
(* the function.  The page is not mounted in these runs.                   *)
(***************************************************************************)
Unmounted ==
    /\ variant = "none"
    /\ zxSeed = 0
    /\ password = <<>>
    /\ result = Idle
    /\ estimate = Idle
    /\ level = Idle
    /\ TipClosed

\* ---- the meter curve, on two values lo <= hi at once
MeterCalls ==
    {[fn |-> "meterPercentFromGuessesLog10", build |-> b, lo |-> lo, hi |-> hi,
      hasInput |-> h] :
        b \in {"App", "part_003"}, lo \in LogGrid, hi \in LogGrid,
        h \in BOOLEAN}

\* the meterPercent a build puts in the Estimate (App.tsx takes no hasInput)
MeterPercentOf(build, g, hasInput) ==
    IF build = "App" THEN meterPercentFromGuessesLog10_App(g)
    ELSE MeterPercentTable[g][hasInput]

InitMeter ==
    /\ Unmounted
    /\ call \in {c \in MeterCalls : NumLeq(c.lo, c.hi)}
    /\ ret = NoReturn

ApplyMeter ==
    /\ call.fn = "meterPercentFromGuessesLog10"
    /\ ~ret.done
    /\ ret' = [done |-> TRUE,
               lo |-> MeterPercentOf(call.build, call.lo, call.hasInput),
               hi |-> MeterPercentOf(call.build, call.hi, call.hasInput)]
    /\ UNCHANGED <<appVars, call>>

SpecMeter == InitMeter /\ [][ApplyMeter]_vars

\* ---- scorePassword on an oracle result whose guesses_log10 runs over the
\* grid (the other fields are those of one result of the family)
ResultWithLog(g) == [ResultAt(0) EXCEPT !.guesses_log10 = g]

EntropyPasswords == {<<>>, <<"a">>, PwPassword123}

InitEntropy ==
    /\ Unmounted
    /\ call \in {[fn |-> "scorePassword", build |-> b, password |-> pw,
                   result |-> ResultWithLog(g)] :
                    b \in Variants, pw \in EntropyPasswords, g \in LogGrid}
    /\ ret = NoReturn

ApplyEntropy ==
    /\ call.fn = "scorePassword"
    /\ ~ret.done
    /\ ret' = [done |-> TRUE,
               estimate |-> scorePassword(call.build, call.password, call.result)]
    /\ UNCHANGED <<appVars, call>>

SpecEntropy == InitEntropy /\ [][ApplyEntropy]_vars

\* ---- strengthFromScore
MaxScore == 9

MaxScoreDen == 4

ScoreInputs ==
    {Num(n, d) : n \in (-MaxScore * MaxScoreDen)..(MaxScore * MaxScoreDen),
                 d \in 1..MaxScoreDen}
      \cup {NaN}

InitTier ==
    /\ Unmounted
    /\ call \in {[fn |-> "strengthFromScore", score |-> s] : s \in ScoreInputs}
    /\ ret = NoReturn

ApplyTier ==
    /\ call.fn = "strengthFromScore"
    /\ ~ret.done
    /\ ret' = [done |-> TRUE, level |-> strengthFromScore(call.score)]
    /\ UNCHANGED <<appVars, call>>

SpecTier == InitTier /\ [][ApplyTier]_vars

\* ---- formatDuration
MaxMantissa == 12

DurationDens == {1, 2, 20}

\* the seconds in 1 second, minute, hour, day, year, century: the product of
\* the first j steps of the ladder
RECURSIVE UnitSeconds(_)
UnitSeconds(j) ==
    IF j = 0 THEN <<1>> ELSE BigMulSmall(UnitSeconds(j - 1), units[j].step)

DurationInputs ==
    {Sec(BigMulSmall(UnitSeconds(j), m), BigFromNat(d)) :
        m \in 0..MaxMantissa, j \in 0..Len(units), d \in DurationDens}
      \cup {SecNeg(BigMulSmall(UnitSeconds(j), m), BigFromNat(d)) :
               m \in 1..MaxMantissa, j \in 0..Len(units), d \in DurationDens}
      \cup {SecNaN, SecInfinity, SecNegInfinity}

InitDuration ==
    /\ Unmounted
    /\ call \in {[fn |-> "formatDuration", build |-> b, seconds |-> x] :
                    b \in {"part_001", "part_002"}, x \in DurationInputs}
    /\ ret = NoReturn

\* part_001 is called with the seconds alone: friendlyDisplay is undefined
ApplyDuration ==
    /\ call.fn = "formatDuration"
    /\ ~ret.done
    /\ ret' = [done |-> TRUE,
               text |-> IF call.build = "part_001"
                        THEN formatDuration_001(call.seconds, <<>>)
                        ELSE formatDuration(call.seconds)]
    /\ UNCHANGED <<appVars, call>>

SpecDuration == InitDuration /\ [][ApplyDuration]_vars

\* ---- the variety count of scorePassword
MaxPwLen == 3

PwAlphabet == {"a", "z", "A", "Z", "0", "9", "*", " ", "é"}

RECURSIVE PwOfLength(_)
PwOfLength(n) ==
    IF n = 0 THEN {<<>>}
    ELSE {Append(pw, c) : pw \in PwOfLength(n - 1), c \in PwAlphabet}

VarietyInputs ==
    UNION {PwOfLength(n) : n \in 0..MaxPwLen}
      \cup {AllPasswords[i] : i \in 1..Len(AllPasswords)}

InitVariety ==
    /\ Unmounted
    /\ call \in {[fn |-> "variety", password |-> pw] : pw \in VarietyInputs}
    /\ ret = NoReturn

ApplyVariety ==
    /\ call.fn = "variety"
    /\ ~ret.done
    /\ ret' = [done |-> TRUE, variety |-> variety(call.password)]
    /\ UNCHANGED <<appVars, call>>

SpecVariety == InitVariety /\ [][ApplyVariety]_vars

\* ---- scorePassword when the call zxcvbn(password) may fail
\* what the call does: it throws, or it returns a result
OracleThrows == [kind |-> "throws"]

OracleReturns(res) == [kind |-> "returns", result |-> res]

\* a result whose feedback has no suggestions property
WithoutSuggestions(res) ==
    [res EXCEPT !.feedback = [warning |-> res.feedback.warning]]

\* results that differ in score, warning and suggestions
OracleSampleStep == Len(ZxLogs) * Len(ZxCrack) * Len(ZxDisplay)

OracleSample ==
    {ResultAt(k * OracleSampleStep) : k \in 0..((ZxCount \div OracleSampleStep) - 1)}

OracleOutcomes ==
    {OracleThrows}
      \cup {OracleReturns(res) : res \in OracleSample}
      \cup {OracleReturns(WithoutSuggestions(res)) : res \in OracleSample}

Threw == [threw |-> TRUE]

Returned(est) == [threw |-> FALSE, estimate |-> est]

\* whether scorePassword reads feedback.suggestions[0]: the password is not
\* empty and warning || ... does not stop at the warning
ReadsSuggestions(pw, res) == Len(pw) > 0 /\ ~Truthy(<<res.feedback.warning>>)

\* scorePassword of build v when zxcvbn(password) does what oracle says.
\* No build wraps the call or the property reads in try/catch: an exception
\* of zxcvbn, or the TypeError of undefined[0], leaves scorePassword.
\* part_001 returns before the call for the empty password.
scorePasswordOutcome(v, pw, oracle) ==
    IF v = "part_001" /\ Len(pw) = 0 THEN Returned(scorePassword_001(pw, Idle))
    ELSE IF oracle.kind = "throws" THEN Threw
    ELSE IF /\ "suggestions" \notin DOMAIN oracle.result.feedback
            /\ ReadsSuggestions(pw, oracle.result)
         THEN Threw
    ELSE Returned(scorePassword(v, pw, oracle.result))

InitOracle ==
    /\ Unmounted
    /\ call \in {[fn |-> "scorePasswordOutcome", build |-> b, password |-> pw,
                   oracle |-> o] :
                    b \in Variants,
                    pw \in {AllPasswords[i] : i \in 1..Len(AllPasswords)},
                    o \in OracleOutcomes}
    /\ ret = NoReturn

ApplyOracle ==
    /\ call.fn = "scorePasswordOutcome"
    /\ ~ret.done
    /\ ret' = [done |-> TRUE,
               outcome |-> scorePasswordOutcome(call.build, call.password,
                                                call.oracle)]
    /\ UNCHANGED <<appVars, call>>

SpecOracle == InitOracle /\ [][ApplyOracle]_vars

(***************************************************************************)
(* Tooltip (src/client/src/Tooltip.tsx).  A gesture of the user puts the   *)
(* DOM events it causes into pending, in the order the browser delivers    *)
(* them; each handler takes the first one.  A new gesture starts when the  *)
(* events of the last one are handled.  The Tooltip is mounted in the page *)
(* of part_003, beside the password input and the preset buttons.          *)
(***************************************************************************)
MaxTaps == 3

InitTooltip ==
    /\ variant = "part_003"
    /\ zxSeed = 0
    /\ password = PwPassword123
    /\ result = zxcvbn(PwPassword123)
    /\ estimate = scorePassword(variant, PwPassword123, zxcvbn(PwPassword123))
    /\ level = LevelOf(variant, estimate)
    /\ call = Idle
    /\ ret = NoReturn
    /\ TipClosed

\* typing goes to the password input, which then holds the focus
OnChangeBesideTip ==
    /\ pending = <<>>
    /\ ~focused
    /\ OnChange

\* a preset button is pressed once the focus has left the trigger
PresetClickBesideTip ==
    /\ pending = <<>>
    /\ ~focused
    /\ PresetClick

\* the pointer moves onto the span
PointerEnter ==
    /\ pending = <<>>
    /\ ~hovered
    /\ pending' = <<"mouseenter">>
    /\ activation' = 0
    /\ UNCHANGED <<open, hovered, focused, pageVars>>

\* the pointer moves off the span
PointerLeave ==
    /\ pending = <<>>
    /\ hovered
    /\ pending' = <<"mouseleave">>
    /\ activation' = 0
    /\ UNCHANGED <<open, hovered, focused, pageVars>>

\* the focus moves to the trigger by the keyboard
FocusIn ==
    /\ pending = <<>>
    /\ ~focused
    /\ pending' = <<"focus">>
    /\ activation' = 0
    /\ UNCHANGED <<open, hovered, focused, pageVars>>

\* the focus moves away from the trigger (Tab, or a tap elsewhere)
FocusOut ==
    /\ pending = <<>>
    /\ focused
    /\ pending' = <<"blur">>
    /\ activation' = 0
    /\ UNCHANGED <<open, hovered, focused, pageVars>>

\* a tap or click on the trigger (or Enter on the focused trigger): a
\* mouseenter if the pointer was not over the span (a touch browser may or
\* may not send one), a focus if the trigger had none, then the click.
\* activation counts the activations in a row that began on a closed
\* tooltip without focus; 0 when the row began otherwise
Activate ==
    /\ pending = <<>>
    /\ activation < MaxTaps
    /\ \E withEnter \in BOOLEAN :
           pending' =
               (IF ~hovered /\ withEnter THEN <<"mouseenter">> ELSE <<>>)
                 \o (IF ~focused THEN <<"focus">> ELSE <<>>)
                 \o <<"click">>
    /\ activation' =
           (IF ~open /\ ~focused THEN 1
            ELSE IF activation >= 1 /\ focused THEN activation + 1
            ELSE 0)
    /\ UNCHANGED <<open, hovered, focused, pageVars>>

\* onMouseEnter={() => setOpen(true)}
onMouseEnter ==
    /\ pending # <<>> /\ Head(pending) = "mouseenter"
    /\ pending' = Tail(pending)
    /\ hovered' = TRUE
    /\ open' = TRUE
    /\ UNCHANGED <<focused, activation, pageVars>>

\* onMouseLeave={() => setOpen(false)}
onMouseLeave ==
    /\ pending # <<>> /\ Head(pending) = "mouseleave"
    /\ pending' = Tail(pending)
    /\ hovered' = FALSE
    /\ open' = FALSE
    /\ UNCHANGED <<focused, activation, pageVars>>

\* onFocus={() => setOpen(true)}
onFocus ==
    /\ pending # <<>> /\ Head(pending) = "focus"
    /\ pending' = Tail(pending)
    /\ focused' = TRUE
    /\ open' = TRUE
    /\ UNCHANGED <<hovered, activation, pageVars>>

\* onBlur={() => setOpen(false)}
onBlur ==
    /\ pending # <<>> /\ Head(pending) = "blur"
    /\ pending' = Tail(pending)
    /\ focused' = FALSE
    /\ open' = FALSE
    /\ UNCHANGED <<hovered, activation, pageVars>>

\* (v) => !v
setOpenToggle(v) == ~v

\* onClick={() => setOpen((v) => !v)}
onClick ==
    /\ pending # <<>> /\ Head(pending) = "click"
    /\ pending' = Tail(pending)
    /\ open' = setOpenToggle(open)
    /\ UNCHANGED <<hovered, focused, activation, pageVars>>

NextTooltip ==
    \/ OnChangeBesideTip \/ PresetClickBesideTip
    \/ PointerEnter \/ PointerLeave \/ FocusIn \/ FocusOut \/ Activate
    \/ onMouseEnter \/ onMouseLeave \/ onFocus \/ onBlur \/ onClick

SpecTooltip == InitTooltip /\ [][NextTooltip]_vars

(***************************************************************************)
(* part_002: the self-contained entropy model.  No oracle is called.       *)
(***************************************************************************)
\* the string of CHARACTER_SETS.symbols, character by character; the grave
\* accent cannot be written in a string here and is spelled out
SymbolString ==
    << "!", "@", "#", "$", "%", "^", "&", "*", "(", ")", "-", "_", "=", "+",
       "[", "]", "{", "}", ";", ":", "'", "\"", ",", ".", "<", ">", "/", "?",
       "grave", "~", "|" >>

CHARACTER_SETS ==
    [lower |-> Cardinality(LowerChars),
     upper |-> Cardinality(UpperChars),
     digits |-> Cardinality(DigitChars),
     symbols |-> Len(SymbolString)]

\* the largest k with 2^k <= c, for c >= 1
RECURSIVE Log2Floor(_)
Log2Floor(c) == IF c < 2 THEN 0 ELSE 1 + Log2Floor(c \div 2)

\* Math.round(x) for x = length * log2(c): the largest r with r - 1/2 <= x,
\* which is 2^(2r - 1) <= c^(2 * length); the search goes up from r
RECURSIVE RoundLog2From(_, _)
RoundLog2From(power, r) ==
    IF BigLeq(BigPow(2, 2 * r + 1), power)
    THEN RoundLog2From(power, r + 1)
    ELSE r

\* Math.round(length * Math.log2(charsetSize)), charsetSize >= 1
MathRoundLog2(length, charsetSize) ==
    RoundLog2From(BigPow(charsetSize, 2 * length),
                  length * Log2Floor(charsetSize))

estimateEntropy(pw) ==
    LET Size(regex, n) == IF RegexTest(regex, pw) THEN n ELSE 0
        charsetSize == Size("[a-z]", CHARACTER_SETS.lower)
                         + Size("[A-Z]", CHARACTER_SETS.upper)
                         + Size("[0-9]", CHARACTER_SETS.digits)
                         + Size("[^a-zA-Z0-9]", CHARACTER_SETS.symbols)
        length == Len(pw)
    IN  IF length = 0 \/ charsetSize = 0 THEN 0
        ELSE MathRoundLog2(length, charsetSize)

\* 1e10, the attacker's guesses per second
guessesPerSecond == BigPow(10, 10)

\* Math.pow(2, entropy) / guessesPerSecond / 2
estimateCrackTimeSeconds(pw) ==
    Sec(BigPow(2, estimateEntropy(pw)), BigMulSmall(guessesPerSecond, 2))

\* /\s/.test(password), on the characters of the model
HasSpace(pw) == \E i \in 1..Len(pw) : pw[i] = " "

passwordFeedback(pw) ==
    LET v == variety(pw)
        s1 == IF Len(pw) < 12
              THEN <<"Try a longer password or passphrase.">> ELSE <<>>
        s2 == IF v < 3
              THEN <<"Mix uppercase, lowercase, numbers, and symbols.">>
              ELSE <<>>
        s3 == IF ~HasSpace(pw) /\ Len(pw) >= 16
              THEN <<"Passphrases with spaces are memorable and strong.">>
              ELSE <<>>
        pushed == s1 \o s2 \o s3
    IN  [entropy |-> estimateEntropy(pw),
         variety |-> v,
         suggestions |-> IF Len(pushed) = 0
                         THEN <<"Nice job! This looks strong.">>
                         ELSE pushed]

scorePassword_002(pw) ==
    LET crackSeconds == estimateCrackTimeSeconds(pw)
        feedback == passwordFeedback(pw)
    IN  [entropy |-> estimateEntropy(pw),
         crackSeconds |-> crackSeconds,
         crackTime |-> formatDuration(crackSeconds),
         suggestion |-> IF Len(pw) # 0 THEN feedback.suggestions[1]
                        ELSE Prompt,
         variety |-> feedback.variety]

\* ---- scorePassword of part_002, on a password
\* the passwords whose crack time is below QuotientLimit years, the largest
\* number the model prints
CrackTimeInputs ==
    LET year == BigMul(BigFromNat(60 * 60 * 24), BigFromNat(365))
        limit == BigMulSmall(year, QuotientLimit)
    IN  {pw \in VarietyInputs :
            LET seconds == estimateCrackTimeSeconds(pw)
            IN  BigLt(seconds.num, BigMul(seconds.den, limit))}

InitCrackTime ==
    /\ Unmounted
    /\ call \in {[fn |-> "scorePassword_002", password |-> pw] :
                    pw \in CrackTimeInputs}
    /\ ret = NoReturn

ApplyCrackTime ==
    /\ call.fn = "scorePassword_002"
    /\ ~ret.done
    /\ ret' = [done |-> TRUE, estimate |-> scorePassword_002(call.password)]
    /\ UNCHANGED <<appVars, call>>

SpecCrackTime == InitCrackTime /\ [][ApplyCrackTime]_vars

(***************************************************************************)
(* The properties.                                                         *)
(***************************************************************************)
Zero == Int2Num(0)

Hundred == Int2Num(100)

\* a number of seconds that is not finite or not positive
BadSeconds(x) ==
    \/ x.kind \in {"NaN", "Infinity"}
    \/ x.kind = "fin" /\ (x.neg \/ x.num = <<>>)

\* the attack scenario a build reads from the oracle's result
Scenario(v) ==
    IF v = "part_003" THEN "offline_slow_hashing_1e4_per_second"
    ELSE "offline_fast_hashing_1e10_per_second"

\* C1: for the empty password the estimate has entropy 0, meterPercent 0,
\* variety 0 and the fixed prompt as suggestion, whatever the oracle returns
\* for the empty string (part_001 has no meterPercent field).
C1_EmptyPasswordIgnoresOracle ==
    password = <<>> =>
        /\ estimate.entropy = 0
        /\ estimate.variety = 0
        /\ estimate.suggestion = Prompt
        /\ variant \in {"App", "part_003"} => estimate.meterPercent = Zero

\* C2: for every guessesLog10 >= 0 and every hasInput, the meterPercent put
\* in the Estimate is an integer in [0,100].
C2_MeterPercentIntegerInRange ==
    ret.done =>
        \A p \in {ret.lo, ret.hi} :
            IsInteger(p) /\ NumLeq(Zero, p) /\ NumLeq(p, Hundred)

\* the clamping window of a build
WindowMin(build) == Int2Num(IF build = "App" THEN AppMeterMin ELSE MeterMin)

WindowMax(build) == Int2Num(IF build = "App" THEN AppMeterMax ELSE MeterMax)

\* C3, as stated: with hasInput = true, meterPercent is 0 for every
\* guessesLog10 at or below minLog and 100 for every one at or above maxLog.
C3_FloorToZeroCeilingToHundred ==
    ret.done /\ call.hasInput =>
        /\ NumLeq(call.lo, WindowMin(call.build)) => ret.lo = Zero
        /\ NumLeq(WindowMax(call.build), call.hi) => ret.hi = Hundred

\* C3, amended: with hasInput = true, meterPercent is 100 for every
\* guessesLog10 at or above maxLog; at or below minLog it is 0 in the build
\* with the window 2..18 and 1, the least fill of a non-empty password, in
\* the build with the window 3..24.
C3_FloorToLeastFillCeilingToHundred ==
    ret.done /\ call.hasInput =>
        /\ NumLeq(call.lo, WindowMin(call.build)) =>
               ret.lo = (IF call.build = "App" THEN Zero ELSE Int2Num(1))
        /\ NumLeq(WindowMax(call.build), call.hi) => ret.hi = Hundred

C3_Witness ==
    /\ ret.done
    /\ call.hasInput
    /\ call.build = "part_003"
    /\ call.lo = Int2Num(MeterMin)
    /\ call.hi = Int2Num(MeterMax)
    /\ ret.lo = Int2Num(1)
    /\ ret.hi = Hundred

\* C4: with hasInput = true, a <= b implies meterPercent(a) <=
\* meterPercent(b), across the clamping boundaries and after rounding.
C4_MeterPercentMonotone ==
    ret.done /\ call.hasInput /\ NumLeq(call.lo, call.hi) =>
        NumLeq(ret.lo, ret.hi)

\* a pair below the floor and above the ceiling, and a pair inside the window
\* that rounding keeps apart
C4_Witness ==
    /\ ret.done
    /\ call.hasInput
    /\ call.build = "part_003"
    /\ NumLt(call.lo, WindowMin(call.build))
    /\ NumLt(WindowMax(call.build), call.hi)
    /\ NumLt(ret.lo, ret.hi)

\* the four character classes, each a set of characters or its complement
ClassPresent(c, pw) ==
    LET chars == {pw[i] : i \in 1..Len(pw)}
    IN  CASE c = "lowercase" -> chars \cap LowerChars # {}
          [] c = "uppercase" -> chars \cap UpperChars # {}
          [] c = "digit" -> chars \cap DigitChars # {}
          [] c = "other" ->
                 chars \ (LowerChars \cup UpperChars \cup DigitChars) # {}

\* C5: variety(p) is in 0..4 and is the number of the four classes that p
\* satisfies, each counted once; "password123" gives 2 and
\* "7*JGiULWFJtydsK*VdpwtGJw" gives 4.
C5_VarietyCountsClasses ==
    ret.done =>
        /\ ret.variety \in 0..4
        /\ ret.variety =
               Cardinality({c \in {"lowercase", "uppercase", "digit", "other"} :
                               ClassPresent(c, call.password)})
        /\ call.password = PwPassword123 => ret.variety = 2
        /\ call.password = PwRandom24 => ret.variety = 4

\* several characters of one class, a space and a non-ASCII letter
C5_Witness ==
    /\ ret.done
    /\ call.password = <<"a", " ", "é">>
    /\ ret.variety = 2

\* round(g * log2(10)) for a rational g >= 0, without rounding error: the
\* largest r with r - 1/2 <= g * log2(10), that is r = 0 or
\* 2^((2r - 1) * den) <= 10^(2 * num); tenPow is 10^(2 * num). A product
\* that lies exactly on a half does not occur (2^odd is no power of 10).
RECURSIVE RoundedBitsFrom(_, _, _)
RoundedBitsFrom(g, tenPow, r) ==
    IF BigLeq(BigPow(2, (2 * r + 1) * g.den), tenPow)
    THEN RoundedBitsFrom(g, tenPow, r + 1)
    ELSE r

\* the search starts at floor(3 * g), which is below g * log2(10)
RoundedBits(g) ==
    RoundedBitsFrom(g, BigPow(10, 2 * g.num), (3 * g.num) \div g.den)

RoundedBitsTable == [g \in LogGrid |-> RoundedBits(g)]

\* C6: for a non-empty password, entropy is an integer >= 0 and equals
\* round(guessesLog10 * log2(10)), rounded half away from zero and floored
\* at 0, for the guessesLog10 the oracle returned.
C6_EntropyIsRoundedBits ==
    ret.done /\ call.password # <<>> =>
        /\ ret.estimate.entropy \in Nat
        /\ ret.estimate.entropy = RoundedBitsTable[call.result.guesses_log10]

\* 10^6 guesses: 19.93 bits, shown as 20
C6_Witness ==
    /\ ret.done
    /\ call.password = PwPassword123
    /\ call.result.guesses_log10 = Int2Num(6)
    /\ ret.estimate.entropy = 20

\* the suggestion of the builds whose fallback is "Nice job! This looks
\* strong.", by the priority of the claim; skipEmpty tells whether an empty
\* first entry of the suggestions counts as no entry
SuggestionByPriority(pw, feedback, skipEmpty) ==
    IF pw = <<>> THEN Prompt
    ELSE IF feedback.warning # "" THEN feedback.warning
    ELSE IF /\ Len(feedback.suggestions) > 0
            /\ (skipEmpty => feedback.suggestions[1] # "")
         THEN feedback.suggestions[1]
    ELSE "Nice job! This looks strong."

\* C7, as stated: for a non-empty password the suggestion is the warning if
\* it is non-empty, otherwise the first entry of the suggestions if there is
\* one, otherwise the fallback; for the empty password it is the prompt.
C7_SuggestionPriority ==
    variant \in {"App", "part_003"} =>
        estimate.suggestion =
            SuggestionByPriority(password, result.feedback, FALSE)

\* C7, amended: the first entry of the suggestions is taken if there is one
\* and it is not the empty string.
C7_SuggestionPriorityNonEmptyEntry ==
    variant \in {"App", "part_003"} =>
        estimate.suggestion =
            SuggestionByPriority(password, result.feedback, TRUE)

\* no warning and an empty first suggestion: the fallback is shown
C7_Witness ==
    /\ variant = "App"
    /\ password = PwCats4Life
    /\ result.feedback.warning = ""
    /\ Len(result.feedback.suggestions) = 2
    /\ result.feedback.suggestions[1] = ""
    /\ estimate.suggestion = "Nice job! This looks strong."

TierLabels == <<"Very weak", "Weak", "Okay", "Strong", "Excellent">>

\* C8: strengthFromScore returns, for each score s in 0..4, the entry of the
\* five-tier table whose score is s, and for every other value (7, -1, a
\* non-integer, NaN) the weakest tier "Very weak".
C8_TierForTotal ==
    ret.done =>
        /\ \E i \in 1..Len(LEVELS) : ret.level = LEVELS[i]
        /\ ret.level.label =
               (IF \E s \in 0..4 : call.score = Int2Num(s)
                THEN TierLabels[call.score.num + 1]
                ELSE "Very weak")
        /\ (\E s \in 0..4 : call.score = Int2Num(s)) =>
               ret.level.score = call.score.num

C8_Witness ==
    /\ ret.done
    /\ call.score = Int2Num(7)
    /\ ret.level.label = "Very weak"

\* the texts of the shape "<quantity> <unit>" whose quantity is not a finite
\* number; "almost instantly" and the unit names contain neither "Infinity"
\* nor "NaN", so a text of formatDuration contains one iff it is in this set
NonFiniteTexts ==
    {q \o " " \o units[i].name \o s :
        q \in {"Infinity", "-Infinity", "NaN"}, i \in 1..Len(units),
        s \in {"", "s"}}

\* C9: formatDuration(seconds) is "almost instantly" for every non-positive
\* and every non-finite input, it returns a text for every input, and the
\* text never contains "Infinity" or "NaN".
C9_BadDurationAlmostInstantly ==
    ret.done =>
        /\ ret.text \in STRING
        /\ BadSeconds(call.seconds) => ret.text = "almost instantly"
        /\ ret.text \notin NonFiniteTexts

C9_Witness ==
    /\ ret.done
    /\ call.seconds = SecInfinity
    /\ call.build = "part_002"
    /\ ret.text = "almost instantly"

\* C10, as stated: whenever the crack-seconds figure of the selected scenario
\* is non-finite or non-positive, the crack-time text is "almost instantly",
\* whatever display string the oracle sends with it.
C10_BadSecondsAlmostInstantly ==
    BadSeconds(estimate.crackSeconds) =>
        estimate.crackTime = "almost instantly"

\* C10, amended: with such a crack-seconds figure, App.tsx and part_003 show
\* the oracle's display string of the scenario as it is; part_001 shows the
\* display string if it is non-empty and "almost instantly" if it is empty,
\* and for the empty password (crack-seconds 0) the prompt.
C10_BadSecondsDisplayFirst ==
    LET display == result.crack_times_display[Scenario(variant)]
    IN  BadSeconds(estimate.crackSeconds) =>
            estimate.crackTime =
                (IF variant \in {"App", "part_003"} THEN display
                 ELSE IF password = <<>> THEN Prompt
                 ELSE IF display # "" THEN display
                 ELSE "almost instantly")

\* part_001, infinite seconds and no display string
C10_Witness ==
    /\ variant = "part_001"
    /\ password # <<>>
    /\ estimate.crackSeconds = SecInfinity
    /\ result.crack_times_display[Scenario(variant)] = ""
    /\ estimate.crackTime = "almost instantly"

\* the call zxcvbn(password) failed: it threw, or its result has no
\* feedback.suggestions
OracleFailed(oracle) ==
    \/ oracle.kind = "throws"
    \/ "suggestions" \notin DOMAIN oracle.result.feedback

\* C11: scorePassword returns an Estimate for every password and every
\* outcome of the oracle call, and when that call fails (throws, or returns a
\* result without feedback.suggestions) it returns the zero/prompt Estimate
\* (entropy 0, variety 0, the prompt as suggestion) instead of throwing.
C11_EstimateNeverFails ==
    ret.done =>
        /\ ~ret.outcome.threw
        /\ OracleFailed(call.oracle) =>
               /\ ret.outcome.estimate.entropy = 0
               /\ ret.outcome.estimate.variety = 0
               /\ ret.outcome.estimate.suggestion = Prompt

\* C12: after any sequence of keystrokes and preset selections, the estimate
\* and the tier on display are scorePassword(p) and the tier of that estimate
\* for the current password p alone: nothing of an earlier password or an
\* earlier result remains.
C12_DisplayIsFreshEstimate ==
    /\ estimate = scorePassword(variant, password, zxcvbn(password))
    /\ level = LevelOf(variant, scorePassword(variant, password, zxcvbn(password)))

\* a typed password whose estimate differs from the one of the first render
C12_Witness ==
    /\ password = <<"a", "B">>
    /\ estimate = scorePassword(variant, password, zxcvbn(password))
    /\ estimate # scorePassword(variant, PwPassword123, zxcvbn(PwPassword123))
    /\ level # LevelOf(variant, scorePassword(variant, PwPassword123,
                                              zxcvbn(PwPassword123)))

\* the ladder of the duration text: the seconds in one unit, and the step to
\* the next unit (the year is the top and has none)
Ladder ==
    << [name |-> "second", size |-> 1, step |-> 60],
       [name |-> "minute", size |-> 60, step |-> 60],
       [name |-> "hour", size |-> 3600, step |-> 24],
       [name |-> "day", size |-> 86400, step |-> 365],
       [name |-> "year", size |-> 31536000, step |-> 0] >>

\* the seconds counted in the unit u
InUnit(seconds, u) ==
    [num |-> seconds.num, den |-> BigMul(seconds.den, BigFromNat(Ladder[u].size))]

\* the first unit in which the value is below the step to the next one
LadderUnit(seconds) ==
    LET stops == {u \in 1..(Len(Ladder) - 1) :
                     ValueLess(InUnit(seconds, u), Ladder[u].step)}
    IN  IF stops = {} THEN Len(Ladder)
        ELSE CHOOSE u \in stops : \A w \in stops : u <= w

\* the value in its unit, rounded to one decimal below 10 and to an integer
\* from 10 on, then the unit, in the plural unless the number is 1
LadderText(seconds) ==
    LET u == LadderUnit(seconds)
        q == InUnit(seconds, u)
        shown == IF ValueLess(q, 10) THEN Num(MathRoundTimes(q, 10), 10)
                 ELSE Int2Num(MathRoundTimes(q, 1))
    IN  NumToString(shown) \o " " \o Ladder[u].name
          \o (IF shown = Int2Num(1) THEN "" ELSE "s")

\* C13: for every finite positive number of seconds the text shows the value
\* in the first unit of the ladder second, minute, hour, day, year in which
\* it is below the next step, so that number times unit is the input up to
\* rounding; a value of one year or more is shown as that many years.
C13_DurationLadder ==
    ret.done /\ ~BadSeconds(call.seconds) =>
        ret.text = LadderText(call.seconds)

\* C14: once the events of an activation of the trigger are handled, the
\* tooltip is open if the activation was the first one on a closed tooltip
\* without focus (optional mouseenter, then focus, then click), and closed
\* if it was the second one in a row, on the still-focused trigger.
C14_ActivationOpensThenCloses ==
    pending = <<>> =>
        /\ (activation = 1 => open)
        /\ (activation = 2 => ~open)

\* the texts of a zero quantity
ZeroTexts == {"0 " \o units[i].name \o "s" : i \in 1..Len(units)}

\* C15: for a finite positive number of seconds, here the crack time
\* scorePassword of part_002 computes for a password, the text of
\* formatDuration never shows a zero quantity such as "0 seconds".
C15_PositiveSecondsNeverZero ==
    ret.done /\ call.fn = "scorePassword_002"
             /\ isFinite(ret.estimate.crackSeconds)
             /\ ~SecNonPositive(ret.estimate.crackSeconds)
        => ret.estimate.crackTime \notin ZeroTexts

=============================================================================
